---- MODULE Spec2Model ----
(***************************************************************************)
(* A model of the bluesky_auto posting bot: the dedup store (storage.py   *)
(* and the load/save pair of post_to_bluesky.py), the two entry points    *)
(* (main.py, post_to_bluesky.py), the two post composers                  *)
(* (agents/bluesky_agent.py, post_to_bluesky.py), the grapheme truncation *)
(* of agents/bluesky_agent.py, and the enricher, the retry policy and the *)
(* validators of agents/gemini_agent.py and agents/health_news_agent.py.  *)
(***************************************************************************)
EXTENDS Integers, Sequences, FiniteSets, TLC

VARIABLES
    file,       \* content of posted_entries.json
    appended,   \* keys k for which a save_posted_entry(k) call has returned
    last,       \* the most recent call on the store
    prev,       \* the call before it
    inp,        \* the composer's input: entry, hashtags, the network's answer
    out,        \* what the composer returned for it
    pc,         \* where the running entry point is: idle, scan, ..., end
    runs,       \* process invocations started so far
    used,       \* main.py: used_articles, the set loaded at the start of the run
    posted,     \* post_to_bluesky.py: posted_entries, the value held in memory
    feedLen,    \* candidates in this run's feed
    idx,        \* candidates taken from the feed so far in this run
    art,        \* main.py: the article get_latest_health_news returned
    unreachable, \* main.py: positions whose accessibility check returned False
    compose,    \* main.py: none, skip or post, the composer's result
    send,       \* main.py: none, ok or raised, what send_post did
    saveCalls,  \* main.py: the save_posted_entry calls of this run
    sendLog,    \* every send_post call of every run: run, key, ok
    trunc,      \* a call of truncate_to_graphemes: text, limit, result
    enr,        \* a call of generate_hashtags: title, the model's response, result
    rt,         \* a call of retry_with_backoff in progress, and its caller's result
    sv          \* two processes inside save_posted_entry: position, key, entries read

storeVars == <<appended, last, prev>>
compVars == <<inp, out>>
appVars == <<pc, runs, used, posted, feedLen, idx, art, unreachable, compose, send,
             saveCalls, sendLog>>
libVars == <<trunc, enr, rt, sv>>
vars == <<file, appended, last, prev, inp, out, pc, runs, used, posted, feedLen, idx,
          art, unreachable, compose, send, saveCalls, sendLog, trunc, enr, rt, sv>>

(***************************************************************************)
(* The persisted file.  Its content is kept by what json.load makes of it: *)
(*   absent   no such file                                                 *)
(*   list     a JSON list of strings (what storage.py writes)              *)
(*   dict     a JSON object keyed by strings (what post_to_bluesky.py      *)
(*            writes to the same file name)                                *)
(*   corrupt  not parseable as JSON (also an empty or half-written file)   *)
(*   scalar   parseable JSON that is a number, true, false or null         *)
(***************************************************************************)
Keys == {"u1", "u2", "u3"}

AbsentFile == [kind |-> "absent", keys |-> {}]
CorruptFile == [kind |-> "corrupt", keys |-> {}]
ScalarFile == [kind |-> "scalar", keys |-> {}]
ListFile(S) == [kind |-> "list", keys |-> S]
DictFile(S) == [kind |-> "dict", keys |-> S]

FileContents ==
    {AbsentFile, CorruptFile, ScalarFile}
        \cup {ListFile(S) : S \in SUBSET Keys}
        \cup {DictFile(S) : S \in SUBSET Keys}

\* The outcomes of open(filepath, 'w') followed by json.dump: both succeed; open
\* raises (the file is left as it was); open succeeds, which truncates the file,
\* and the dump raises before the content is complete.
WriteOutcomes == {"ok", "open_fails", "dump_fails"}

(***************************************************************************)
(* storage.py                                                              *)
(***************************************************************************)
\* load_posted_entries: only json.JSONDecodeError is caught; len(data) and
\* set(data) run inside the try and raise TypeError for a scalar.
load_posted_entries(f) ==
    IF f.kind = "absent" THEN [st |-> "ok", val |-> {}]
    ELSE IF f.kind = "corrupt" THEN [st |-> "ok", val |-> {}]
    ELSE IF f.kind = "scalar" THEN [st |-> "raise", val |-> {}]
    ELSE [st |-> "ok", val |-> f.keys]

\* save_posted_entry: the load, the early return on a key already there, and
\* the write, whose errors are caught and printed.
save_posted_entry(new_url, f, io) ==
    LET r == load_posted_entries(f) IN
    IF r.st = "raise" THEN [file |-> f, st |-> "raise", wrote |-> FALSE]
    ELSE IF new_url \in r.val THEN [file |-> f, st |-> "ok", wrote |-> FALSE]
    ELSE LET entries == r.val \cup {new_url} IN
         IF io = "ok" THEN [file |-> ListFile(entries), st |-> "ok", wrote |-> TRUE]
         ELSE IF io = "open_fails" THEN [file |-> f, st |-> "ok", wrote |-> FALSE]
         ELSE [file |-> CorruptFile, st |-> "ok", wrote |-> TRUE]

(***************************************************************************)
(* post_to_bluesky.py: its own load and save of the same file              *)
(***************************************************************************)
\* load_posted_entries: json.load's value is returned as it is; only
\* FileNotFoundError is caught.
rss_load_posted_entries(f) ==
    IF f.kind = "absent" THEN [st |-> "ok", val |-> DictFile({})]
    ELSE IF f.kind = "corrupt" THEN [st |-> "raise", val |-> DictFile({})]
    ELSE [st |-> "ok", val |-> f]

\* save_posted_entries: nothing is caught.
save_posted_entries(entries, f, io) ==
    IF io = "ok" THEN [file |-> entries, st |-> "ok"]
    ELSE IF io = "open_fails" THEN [file |-> f, st |-> "raise"]
    ELSE [file |-> CorruptFile, st |-> "raise"]

\* A call on the store, as the history variables keep it.
NoCall ==
    [op |-> "none", key |-> "", before |-> AbsentFile, after |-> AbsentFile,
     st |-> "ok", wrote |-> FALSE, val |-> {}]

(***************************************************************************)
(* Text.  A string is a sequence of Unicode code points; its UTF-8         *)
(* encoding is a sequence of bytes.                                        *)
(***************************************************************************)
\* str.encode('utf-8') of one code point.
Utf8(c) ==
    IF c < 128 THEN <<c>>
    ELSE IF c < 2048 THEN <<192 + (c \div 64), 128 + (c % 64)>>
    ELSE IF c < 65536 THEN
        <<224 + (c \div 4096), 128 + ((c \div 64) % 64), 128 + (c % 64)>>
    ELSE <<240 + (c \div 262144), 128 + ((c \div 4096) % 64),
           128 + ((c \div 64) % 64), 128 + (c % 64)>>

\* str.encode('utf-8'): the bytes of the code points, in order (computed by
\* halves, which keeps the nesting shallow on a long text).
RECURSIVE Encode(_)
Encode(s) ==
    IF s = <<>> THEN <<>>
    ELSE IF Len(s) = 1 THEN Utf8(s[1])
    ELSE LET h == Len(s) \div 2
         IN Encode(SubSeq(s, 1, h)) \o Encode(SubSeq(s, h + 1, Len(s)))

\* s[:n] and s[n:] of Python, for 0 <= n.
Prefix(s, n) == SubSeq(s, 1, IF n < Len(s) THEN n ELSE Len(s))
Suffix(s, n) == SubSeq(s, n + 1, Len(s))

\* str.find: the index (from 0) of the first occurrence, or -1.
Find(s, sub) ==
    LET hits == {i \in 0..(Len(s) - Len(sub)) : SubSeq(s, i + 1, i + Len(sub)) = sub}
    IN IF hits = {} THEN -1 ELSE CHOOSE i \in hits : \A j \in hits : i <= j

\* The whitespace str.strip() and str.split() remove (the ASCII part).
Whitespace == {9, 10, 11, 12, 13, 32}

IsSpace(c) == c \in Whitespace

\* str.lower and str.upper on one code point (ASCII and Latin-1 letters; the
\* other code points of the model's inputs have no case).
Lower(c) ==
    IF c >= 65 /\ c <= 90 THEN c + 32
    ELSE IF c >= 192 /\ c <= 222 /\ c # 215 THEN c + 32
    ELSE c

Upper(c) ==
    IF c >= 97 /\ c <= 122 THEN c - 32
    ELSE IF c >= 224 /\ c <= 254 /\ c # 247 THEN c - 32
    ELSE c

LowerStr(s) == [i \in 1..Len(s) |-> Lower(s[i])]

\* str.capitalize: the first character upper-cased, all the others lower-cased.
Capitalize(w) == [i \in 1..Len(w) |-> IF i = 1 THEN Upper(w[i]) ELSE Lower(w[i])]

RECURSIVE LStrip(_, _)
LStrip(s, chars) ==
    IF s # <<>> /\ Head(s) \in chars THEN LStrip(Tail(s), chars) ELSE s

RECURSIVE RStrip(_, _)
RStrip(s, chars) ==
    IF s # <<>> /\ s[Len(s)] \in chars THEN RStrip(SubSeq(s, 1, Len(s) - 1), chars)
    ELSE s

\* str.strip()
Strip(s) == RStrip(LStrip(s, Whitespace), Whitespace)

\* str.split(): the maximal runs of non-whitespace, in order.
RECURSIVE Split(_)
Split(s) ==
    LET t == LStrip(s, Whitespace) IN
    IF t = <<>> THEN <<>>
    ELSE LET ends == {i \in 1..Len(t) : IsSpace(t[i])}
             n == IF ends = {} THEN Len(t)
                  ELSE (CHOOSE i \in ends : \A j \in ends : i <= j) - 1
         IN <<SubSeq(t, 1, n)>> \o Split(Suffix(t, n))

\* sep.join(parts)
RECURSIVE Join(_, _)
Join(sep, parts) ==
    IF parts = <<>> THEN <<>>
    ELSE IF Len(parts) = 1 THEN parts[1]
    ELSE parts[1] \o sep \o Join(sep, Tail(parts))

\* ''.join(parts), by halves.
RECURSIVE Concat(_)
Concat(parts) ==
    IF parts = <<>> THEN <<>>
    ELSE IF Len(parts) = 1 THEN parts[1]
    ELSE LET h == Len(parts) \div 2
         IN Concat(SubSeq(parts, 1, h)) \o Concat(SubSeq(parts, h + 1, Len(parts)))

(***************************************************************************)
(* Grapheme clusters: regex's \X, the extended grapheme clusters of        *)
(* Unicode (UAX #29), for the code points of the model's texts: ASCII,     *)
(* Latin-1, the combining diacritical marks, ZWNJ and ZWJ, the variation   *)
(* selectors, the emoji modifiers, the regional indicators and the         *)
(* pictographs of U+1F400..U+1F64F.  (No Hangul, Prepend or SpacingMark    *)
(* code point is in them.)                                                 *)
(***************************************************************************)
\* Grapheme_Cluster_Break of a code point, with Extended_Pictographic.
GraphemeClass(c) ==
    IF c = 13 THEN "CR"
    ELSE IF c = 10 THEN "LF"
    ELSE IF c < 32 \/ (c >= 127 /\ c <= 159) \/ c = 173 \/ c = 8203 THEN "Control"
    ELSE IF c = 8205 THEN "ZWJ"
    ELSE IF \/ (c >= 768 /\ c <= 879)
            \/ c = 8204
            \/ (c >= 65024 /\ c <= 65039)
            \/ (c >= 127995 /\ c <= 127999) THEN "Extend"
    ELSE IF c >= 127462 /\ c <= 127487 THEN "RI"
    ELSE IF c >= 128000 /\ c <= 128591 THEN "ExtPict"
    ELSE "Other"

\* The number of regional indicators in a row that end at s[i].
RECURSIVE RiRun(_, _)
RiRun(s, i) ==
    IF i >= 1 /\ GraphemeClass(s[i]) = "RI" THEN 1 + RiRun(s, i - 1) ELSE 0

\* Is there a cluster boundary between s[i] and s[i+1] (1 <= i < Len(s))?
\* GB3, GB4, GB5, GB9, GB11, GB12/13, GB999 in that order.
GraphemeBreak(s, i) ==
    LET x == GraphemeClass(s[i])
        y == GraphemeClass(s[i + 1])
    IN IF x = "CR" /\ y = "LF" THEN FALSE
       ELSE IF x \in {"Control", "CR", "LF"} THEN TRUE
       ELSE IF y \in {"Control", "CR", "LF"} THEN TRUE
       ELSE IF y \in {"Extend", "ZWJ"} THEN FALSE
       ELSE IF /\ x = "ZWJ"
               /\ y = "ExtPict"
               /\ \E j \in 1..(i - 1) :
                    /\ GraphemeClass(s[j]) = "ExtPict"
                    /\ \A k \in (j + 1)..(i - 1) : GraphemeClass(s[k]) = "Extend"
            THEN FALSE
       ELSE IF x = "RI" /\ y = "RI" /\ RiRun(s, i) % 2 = 1 THEN FALSE
       ELSE TRUE

\* The cluster boundaries of s strictly between positions lo and hi.
GraphemeCuts(s, lo, hi) == {i \in (lo + 1)..(hi - 1) : GraphemeBreak(s, i)}

\* The clusters of s[lo:hi], lo and hi being boundaries: the text is cut at the
\* boundary nearest its middle and the clusters of the halves are joined.
RECURSIVE ClustersBetween(_, _, _)
ClustersBetween(s, lo, hi) ==
    LET inner == GraphemeCuts(s, lo, hi)
        m == (lo + hi) \div 2
        upper == {c \in inner : c >= m}
        mid == IF upper # {} THEN CHOOSE c \in upper : \A d \in upper : c <= d
               ELSE CHOOSE c \in inner : \A d \in inner : d <= c
    IN IF inner = {} THEN <<SubSeq(s, lo + 1, hi)>>
       ELSE ClustersBetween(s, lo, mid) \o ClustersBetween(s, mid, hi)

\* regex.findall(r'\X', text): the clusters of the text, from left to right.
Graphemes(s) == IF s = <<>> THEN <<>> ELSE ClustersBetween(s, 0, Len(s))

\* seq[:n] of Python for any integer n: a negative n counts from the end.
PySliceTo(seq, n) ==
    IF n >= 0 THEN Prefix(seq, n)
    ELSE IF Len(seq) + n > 0 THEN SubSeq(seq, 1, Len(seq) + n)
    ELSE <<>>

(***************************************************************************)
(* agents/bluesky_agent.py                                                 *)
(***************************************************************************)
\* The keyword -> marker mapping, in the dictionary's order, with the code
\* points the source file holds.
emoji_map ==
    <<[keyword |-> <<102, 97, 115, 116, 105, 110, 103>>, emoji |-> <<226, 177, 239, 184>>],
      [keyword |-> <<97, 103, 105, 110, 103>>, emoji |-> <<226, 338, 8250>>],
      [keyword |-> <<108, 111, 110, 103, 101, 118, 105, 116, 121>>, emoji |-> <<287, 376, 167, 172>>],
      [keyword |-> <<104, 101, 97, 108, 116, 104>>, emoji |-> <<287, 376, 8217, 353>>],
      [keyword |-> <<110, 117, 116, 114, 105, 116, 105, 111, 110>>, emoji |-> <<287, 376, 165, 8212>>],
      [keyword |-> <<115, 117, 112, 112, 108, 101, 109, 101, 110, 116>>, emoji |-> <<287, 376, 8217, 352>>],
      [keyword |-> <<110, 101, 119, 115>>, emoji |-> <<287, 376, 8220, 176>>],
      [keyword |-> <<114, 111, 117, 110, 100, 117, 112>>, emoji |-> <<287, 376, 8220, 8230>>],
      [keyword |-> <<99, 97, 114, 100, 105, 97, 99>>, emoji |-> <<226, 164, 239, 184>>],
      [keyword |-> <<100, 105, 97, 98, 101, 116, 101, 115>>, emoji |-> <<287, 376, 8217, 8240>>],
      [keyword |-> <<107, 101, 116, 111, 110, 101, 115>>, emoji |-> <<287, 376, 8217, 170>>],
      [keyword |-> <<101, 120, 101, 114, 99, 105, 115, 101>>, emoji |-> <<287, 376, 8217, 170>>],
      [keyword |-> <<109, 117, 115, 99, 108, 101>>, emoji |-> <<287, 376, 8217, 170>>]>>

default_emoji == <<287, 376, 8221, 172>>

\* get_emoji_for_title: the first keyword found in the lower-cased title wins.
get_emoji_for_title(title) ==
    LET hits == {i \in 1..Len(emoji_map) :
                    Find(LowerStr(title), LowerStr(emoji_map[i].keyword)) # -1}
    IN IF hits = {} THEN default_emoji
       ELSE emoji_map[CHOOSE i \in hits : \A j \in hits : i <= j].emoji

\* The answers of the network to the requests made for a link.
NetOutcomes == {"unreachable", "page_error", "image_error", "blob_error", "card_ok"}

\* fetch_embed_url_card of bluesky_agent.py: None for an empty url and for any
\* exception of the page fetch, the image fetch or the blob upload.
fetch_embed_url_card(url, net) ==
    IF url = <<>> THEN "none"
    ELSE IF net = "card_ok" THEN "card"
    ELSE "none"

\* count_graphemes
count_graphemes(text) == Len(Graphemes(text))

\* The slip of cutting by code points (text[:limit]) instead of by clusters.
truncate_to_code_points(text, limit) ==
    IF Len(text) <= limit THEN text ELSE PySliceTo(text, limit)

\* truncate_to_graphemes
truncate_to_graphemes(text, limit) ==
    LET graphemes == Graphemes(text) IN
    IF Len(graphemes) <= limit THEN text
    ELSE Concat(PySliceTo(graphemes, limit))

\* The cleaned tags: of the first 3 tags, the leading '#'s removed, the words
\* capitalized and joined, '#' put in front.
cleaned_hashtags(hashtags) ==
    [i \in 1..Len(Prefix(hashtags, 3)) |->
        <<35>> \o Concat([j \in 1..Len(Split(LStrip(hashtags[i], {35}))) |->
                            Capitalize(Split(LStrip(hashtags[i], {35}))[j])])]

\* One facet of a tag, by the bytes of the text before its first occurrence.
AgentTagFacet(content, tag) ==
    LET tag_start_char == Find(content, tag)
        tag_start_byte == Len(Encode(Prefix(content, tag_start_char)))
    IN [byteStart |-> tag_start_byte,
        byteEnd |-> tag_start_byte + Len(Encode(tag)),
        type |-> "tag",
        value |-> LStrip(tag, {35})]

RECURSIVE AgentFacets(_, _)
AgentFacets(content, tags) ==
    IF tags = <<>> THEN <<>>
    ELSE (IF Find(content, Head(tags)) # -1
          THEN <<AgentTagFacet(content, Head(tags))>> ELSE <<>>)
         \o AgentFacets(content, Tail(tags))

SkipResult == [st |-> "skip", text |-> <<>>, facets |-> <<>>, embed |-> "none"]

\* create_post_content.  A title or description of None makes a step raise
\* (title.lower(), description.strip()), which the except turns into the skip
\* result; the link's accessibility is not looked at.
create_post_content(entry, hashtags, net) ==
    IF entry.title.none \/ entry.description.none THEN SkipResult
    ELSE LET title == entry.title.str
             link == entry.link
             title_line == get_emoji_for_title(title) \o <<32>> \o title
             description == Strip(entry.description.str)
             tags == cleaned_hashtags(hashtags)
             content == title_line \o <<10, 10>> \o description \o <<10, 10>>
                            \o Join(<<32>>, tags)
         IN [st |-> "post",
             text |-> content,
             facets |-> AgentFacets(content, tags),
             embed |-> IF link # <<>> THEN fetch_embed_url_card(link, net) ELSE "none"]

(***************************************************************************)
(* post_to_bluesky.py: the composer of the RSS entry point                 *)
(***************************************************************************)
\* One facet of a tag, by the character index of its first occurrence.
RssTagFacet(content, hashtag) ==
    LET tag_start == Find(content, hashtag)
    IN [byteStart |-> tag_start,
        byteEnd |-> tag_start + Len(hashtag),
        type |-> "tag",
        value |-> Suffix(hashtag, 1)]

RECURSIVE RssFacets(_, _)
RssFacets(content, tags) ==
    IF tags = <<>> THEN <<>>
    ELSE (IF Find(content, Head(tags)) # -1
          THEN <<RssTagFacet(content, Head(tags))>> ELSE <<>>)
         \o RssFacets(content, Tail(tags))

\* fetch_embed_url_card of post_to_bluesky.py: every failure raises.
rss_fetch_embed_url_card(url, net) ==
    IF url = <<>> THEN "raise"
    ELSE IF net = "card_ok" THEN "card"
    ELSE "raise"

\* create_bluesky_post: the link, a blank line, the first 3 tags; a link facet
\* from 0 to len(link); the card fetch is not guarded.
create_bluesky_post(entry, hashtags, net) ==
    LET link == entry.link
        content == link \o <<10, 10>> \o Join(<<32>>, Prefix(hashtags, 3))
        linkFacet == [byteStart |-> 0, byteEnd |-> Len(link),
                      type |-> "link", value |-> link]
        embed == rss_fetch_embed_url_card(link, net)
    IN IF embed = "raise"
       THEN [st |-> "raise", text |-> <<>>, facets |-> <<>>, embed |-> "none"]
       ELSE [st |-> "post",
             text |-> content,
             facets |-> <<linkFacet>> \o RssFacets(content, Prefix(hashtags, 3)),
             embed |-> embed]

(***************************************************************************)
(* The entry points: what they share                                       *)
(***************************************************************************)
MaxRuns == 2
MaxFeed == 2

NoArticle == [idx |-> 0, url |-> <<>>, title |-> <<>>, descNone |-> FALSE]

\* No call of the library functions below has been made.
NoTrunc == [text |-> <<>>, limit |-> 0, res |-> <<>>, done |-> FALSE]
NoEnr == [by |-> "none", title |-> <<>>, response |-> "none", res |-> <<>>]
NoRetry ==
    [pc |-> "idle", max_retries |-> 0, initial_delay |-> 0, attempt |-> 0,
     calls |-> <<>>, waits |-> <<>>, result |-> "none", gemini |-> "none",
     health |-> "none"]
NoSave == [p \in {1, 2} |-> [pc |-> "idle", key |-> "", entries |-> {}, before |-> {}]]

LibIdle ==
    /\ trunc = NoTrunc
    /\ enr = NoEnr
    /\ rt = NoRetry
    /\ sv = NoSave

\* No entry point has started.
AppIdle ==
    /\ pc = "idle"
    /\ runs = 0
    /\ used = {}
    /\ posted = DictFile({})
    /\ feedLen = 0
    /\ idx = 0
    /\ art = NoArticle
    /\ unreachable = {}
    /\ compose = "none"
    /\ send = "none"
    /\ saveCalls = <<>>
    /\ sendLog = <<>>
    /\ LibIdle

\* The keys the file holds, as either entry point reads them.
PersistedKeys(f) == IF f.kind \in {"list", "dict"} THEN f.keys ELSE {}

\* "h.co/a", "h.co/e-acute"
UrlA == <<104, 46, 99, 111, 47, 97>>
UrlE == <<104, 46, 99, 111, 47, 233>>
\* "Facebook.com/p"
UrlBlocked == <<70, 97, 99, 101, 98, 111, 111, 107, 46, 99, 111, 109, 47, 112>>

(***************************************************************************)
(* The composers on their own: every input of the bounded sets below, and  *)
(* one call of either composer on it.                                      *)
(***************************************************************************)
MaxTags == 4

Some(s) == [none |-> FALSE, str |-> s]
None == [none |-> TRUE, str |-> <<>>]

\* "", "Health", "e-acute #He" and None
Titles == {Some(<<>>), Some(<<72, 101, 97, 108, 116, 104>>),
           Some(<<233, 32, 35, 72, 101>>), None}

\* "", " #He e-acute " and None
Descriptions == {Some(<<>>), Some(<<32, 35, 72, 101, 32, 233, 32>>), None}

\* "#He", "#Health", "#healthNews", "#e-acute": what generate_hashtags can
\* return (a model line matching ^#[a-zA-Z0-9]+$, or '#' and a lower-cased
\* alphanumeric word of the title).
TagSet == {<<35, 72, 101>>, <<35, 72, 101, 97, 108, 116, 104>>,
           <<35, 104, 101, 97, 108, 116, 104, 78, 101, 119, 115>>, <<35, 233>>}

TagLists == UNION {[1..n -> TagSet] : n \in 0..MaxTags}

\* "", "h.co/a", "h.co/e-acute"
Links == {<<>>, <<104, 46, 99, 111, 47, 97>>, <<104, 46, 99, 111, 47, 233>>}

NoInput ==
    [entry |-> [title |-> None, description |-> None, link |-> <<>>],
     hashtags |-> <<>>, net |-> "unreachable"]

NoOutput == [by |-> "none", res |-> SkipResult]

ComposeInit ==
    /\ file = AbsentFile
    /\ appended = {}
    /\ last = NoCall
    /\ prev = NoCall
    /\ inp \in [entry : [title : Titles, description : Descriptions, link : Links],
                hashtags : TagLists, net : NetOutcomes]
    /\ out = NoOutput
    /\ AppIdle

ComposeAgent ==
    /\ out.by = "none"
    /\ out' = [by |-> "agent",
               res |-> create_post_content(inp.entry, inp.hashtags, inp.net)]
    /\ UNCHANGED <<libVars, file, storeVars, inp, appVars>>

ComposeRss ==
    /\ out.by = "none"
    /\ out' = [by |-> "rss",
               res |-> create_bluesky_post(inp.entry, inp.hashtags, inp.net)]
    /\ UNCHANGED <<libVars, file, storeVars, inp, appVars>>

ComposeNext == ComposeAgent \/ ComposeRss

SpecCompose == ComposeInit /\ [][ComposeNext]_vars

\* The tags as the composed text holds them, in the order of their facets.
TextTags ==
    IF out.by = "agent" THEN cleaned_hashtags(inp.hashtags)
    ELSE Prefix(inp.hashtags, 3)

TagFacets == SelectSeq(out.res.facets, LAMBDA f : f.type = "tag")
LinkFacets == SelectSeq(out.res.facets, LAMBDA f : f.type = "link")

Composed == out.by # "none" /\ out.res.st = "post"

\* What a facet annotates: the tag as it stands in the text, or the link.
Annotated(k) ==
    IF out.res.facets[k].type = "link" THEN inp.entry.link
    ELSE TextTags[k - Len(LinkFacets)]

IsAscii(s) == \A i \in 1..Len(s) : s[i] < 128

\* C7: create_post_content returns the skip result exactly when the link is
\* empty, the link is unreachable, or a step of composing raises.
C7_SkipExactly ==
    out.by = "agent" =>
        (out.res.st = "skip" <=>
            \/ inp.entry.link = <<>>
            \/ inp.net = "unreachable"
            \/ inp.entry.title.none
            \/ inp.entry.description.none)

\* C8: the facet of the tag found at character index i of the text has
\* byteStart = the UTF-8 length of text[:i] and byteEnd = byteStart + the UTF-8
\* length of the tag; in an ASCII-only text byteStart = i.
C8_TagByteOffsets ==
    Composed =>
        /\ Len(TagFacets) = Len(TextTags)
        /\ \A k \in 1..Len(TagFacets) :
            LET i == Find(out.res.text, TextTags[k]) IN
            /\ TagFacets[k].byteStart = Len(Encode(Prefix(out.res.text, i)))
            /\ TagFacets[k].byteEnd = TagFacets[k].byteStart + Len(Encode(TextTags[k]))
            /\ IsAscii(out.res.text) => TagFacets[k].byteStart = i

\* C9: every span is a range 0 <= byteStart < byteEnd <= the byte length of the
\* text, the bytes in it are those of the tag or link it annotates, and two
\* distinct spans do not overlap.
C9_SpanInvariant ==
    Composed =>
        LET bytes == Encode(out.res.text)
            fs == out.res.facets
        IN /\ \A k \in 1..Len(fs) :
                /\ 0 <= fs[k].byteStart
                /\ fs[k].byteStart < fs[k].byteEnd
                /\ fs[k].byteEnd <= Len(bytes)
                /\ SubSeq(bytes, fs[k].byteStart + 1, fs[k].byteEnd) = Encode(Annotated(k))
           /\ \A j, k \in 1..Len(fs) :
                j # k => (fs[j].byteEnd <= fs[k].byteStart \/ fs[k].byteEnd <= fs[j].byteStart)

\* The number of occurrences of sub in s.
Occurrences(s, sub) ==
    Cardinality({i \in 0..(Len(s) - Len(sub)) : SubSeq(s, i + 1, i + Len(sub)) = sub})

\* C10: for an item with a reachable link, the composed text holds the link
\* once, and there is one link span, over the bytes of that occurrence, whose
\* payload is the link.
C10_LinkSpan ==
    (Composed /\ inp.entry.link # <<>> /\ inp.net # "unreachable") =>
        LET link == inp.entry.link
            start == Len(Encode(Prefix(out.res.text, Find(out.res.text, link))))
        IN /\ Occurrences(out.res.text, link) = 1
           /\ Len(LinkFacets) = 1
           /\ LinkFacets[1].byteStart = start
           /\ LinkFacets[1].byteEnd = start + Len(Encode(link))
           /\ LinkFacets[1].value = link

\* C11: the composed post carries one hashtag span for each of the first 3
\* input tags and none for a later tag, and the payload of the k-th span is the
\* k-th input tag without its leading '#', letters and case unchanged.
C11_FirstThreeTags ==
    Composed =>
        /\ Len(TagFacets) = Len(Prefix(inp.hashtags, 3))
        /\ \A k \in 1..Len(TagFacets) :
            TagFacets[k].value = Suffix(inp.hashtags[k], 1)

\* C14: when the page fetch, the image fetch or the blob upload for a link
\* fails, the composer (given a title and a description) still returns the
\* text and the spans, with no preview card.
C14_CardFailureDegrades ==
    (/\ out.by # "none"
     /\ inp.entry.link # <<>>
     /\ inp.net \in {"page_error", "image_error", "blob_error"}
     /\ ~inp.entry.title.none
     /\ ~inp.entry.description.none) =>
        /\ out.res.st = "post"
        /\ out.res.embed = "none"

(***************************************************************************)
(* The composers on long inputs: descriptions around the platform's limit. *)
(***************************************************************************)
\* The limit the platform sets on the text of a post, in grapheme clusters
\* (the source names no limit and passes none to the composer).
PlatformLimit == 300

\* A description of n times the cluster c.
Repeat(c, n) == Concat([i \in 1..n |-> c])

\* "", "a" * (limit - 20), "a" * limit, and (a, combining acute) * limit:
\* the last two make a composition of more than limit clusters.
LongDescriptions ==
    {Some(<<>>),
     Some(Repeat(<<97>>, PlatformLimit - 20)),
     Some(Repeat(<<97>>, PlatformLimit)),
     Some(Repeat(<<97, 769>>, PlatformLimit))}

LengthInit ==
    /\ file = AbsentFile
    /\ appended = {}
    /\ last = NoCall
    /\ prev = NoCall
    /\ inp \in [entry : [title : {Some(<<>>), Some(<<72, 101, 97, 108, 116, 104>>)},
                         description : LongDescriptions,
                         link : Links],
                hashtags : {<<>>, <<<<35, 72, 101>>>>, <<<<35, 72, 101>>, <<35, 233>>>>},
                net : NetOutcomes]
    /\ out = NoOutput
    /\ AppIdle

SpecLength == LengthInit /\ [][ComposeNext]_vars

\* C12: the text of a non-skip result of create_post_content has at most the
\* platform limit of grapheme clusters (the claim's second half, what is cut
\* when the composition is longer, rests on this bound).
C12_LengthBound ==
    (out.by = "agent" /\ out.res.st = "post") =>
        count_graphemes(out.res.text) <= PlatformLimit

(***************************************************************************)
(* truncate_to_graphemes on its own: every text of up to MaxLen code       *)
(* points of the alphabet below, every limit from -1 to MaxLimit.          *)
(***************************************************************************)
MaxLen == 3
MaxLimit == 3

\* a, combining acute accent, CR, LF, zero width joiner, the pictograph
\* U+1F469, the regional indicator U+1F1E6.
TruncAlphabet == {97, 769, 13, 10, 8205, 128105, 127462}

TruncTexts == UNION {[1..n -> TruncAlphabet] : n \in 0..MaxLen}

TruncInit ==
    /\ file = AbsentFile
    /\ appended = {}
    /\ last = NoCall
    /\ prev = NoCall
    /\ inp = NoInput
    /\ out = NoOutput
    /\ pc = "idle"
    /\ runs = 0
    /\ used = {}
    /\ posted = DictFile({})
    /\ feedLen = 0
    /\ idx = 0
    /\ art = NoArticle
    /\ unreachable = {}
    /\ compose = "none"
    /\ send = "none"
    /\ saveCalls = <<>>
    /\ sendLog = <<>>
    /\ trunc \in [text : TruncTexts, limit : -1..MaxLimit, res : {<<>>}, done : {FALSE}]
    /\ enr = NoEnr
    /\ rt = NoRetry
    /\ sv = NoSave

TruncateCall ==
    /\ ~trunc.done
    /\ trunc' = [trunc EXCEPT !.res = truncate_to_graphemes(trunc.text, trunc.limit),
                              !.done = TRUE]
    /\ UNCHANGED <<file, storeVars, compVars, appVars, enr, rt, sv>>

TruncNext == TruncateCall

SpecTruncate == TruncInit /\ [][TruncNext]_vars

\* C13: truncate_to_graphemes(text, limit), limit >= 0, returns the first
\* min(n, limit) clusters of the text joined in order (n = the number of its
\* clusters): the result is a prefix of the text cut at a cluster boundary, its
\* clusters are those clusters, whole, there are at most limit of them, and for
\* n <= limit the result is the text.
C13_TruncateWholeClusters ==
    (trunc.done /\ trunc.limit >= 0) =>
        LET g == Graphemes(trunc.text)
            n == Len(g)
            m == IF n <= trunc.limit THEN n ELSE trunc.limit
            r == trunc.res
        IN /\ r = Concat(Prefix(g, m))
           /\ r = Prefix(trunc.text, Len(r))
           /\ (Len(r) \in {0, Len(trunc.text)} \/ GraphemeBreak(trunc.text, Len(r)))
           /\ Graphemes(r) = Prefix(g, m)
           /\ count_graphemes(r) <= trunc.limit
           /\ (n <= trunc.limit => r = trunc.text)

\* A text of more clusters than the limit was cut, and the cluster kept first
\* has more than one code point.
C13_Witness ==
    /\ trunc.done
    /\ trunc.limit >= 1
    /\ count_graphemes(trunc.text) > trunc.limit
    /\ trunc.res # trunc.text
    /\ Len(Graphemes(trunc.res)[1]) > 1

(***************************************************************************)
(* The store on its own: calls of load and save on any starting content.   *)
(***************************************************************************)
StoreInit ==
    /\ file \in FileContents
    /\ appended = {}
    /\ last = NoCall
    /\ prev = NoCall
    /\ inp = NoInput
    /\ out = NoOutput
    /\ AppIdle

StoreLoad ==
    LET r == load_posted_entries(file) IN
    /\ last' = [op |-> "load", key |-> "", before |-> file, after |-> file,
                st |-> r.st, wrote |-> FALSE, val |-> r.val]
    /\ prev' = last
    /\ UNCHANGED <<libVars, file, appended, compVars, appVars>>

StoreSave ==
    \E k \in Keys, io \in WriteOutcomes :
        LET r == save_posted_entry(k, file, io) IN
        /\ file' = r.file
        /\ appended' = IF r.st = "ok" THEN appended \cup {k} ELSE appended
        /\ last' = [op |-> "save", key |-> k, before |-> file, after |-> r.file,
                    st |-> r.st, wrote |-> r.wrote, val |-> {}]
        /\ prev' = last
        /\ UNCHANGED <<libVars, compVars, appVars>>

StoreRssLoad ==
    LET r == rss_load_posted_entries(file) IN
    /\ last' = [op |-> "rss_load", key |-> "", before |-> file, after |-> file,
                st |-> r.st, wrote |-> FALSE, val |-> r.val.keys]
    /\ prev' = last
    /\ UNCHANGED <<libVars, file, appended, compVars, appVars>>

StoreNext == StoreLoad \/ StoreSave \/ StoreRssLoad

SpecStore == StoreInit /\ [][StoreNext]_vars

\* C1: after save_posted_entry(k) has returned, for any k and any sequence of
\* such calls, a load_posted_entries() of the file as it now is returns a set
\* that contains every such k.
C1_Durability ==
    appended # {} =>
        /\ load_posted_entries(file).st = "ok"
        /\ appended \subseteq load_posted_entries(file).val

\* C2: save_posted_entry(k) called twice in a row: the second call does not
\* write the file, and the persisted set has the members (and so the size) it
\* had after the first call.
C2_Idempotent ==
    (last.op = "save" /\ prev.op = "save" /\ last.key = prev.key) =>
        /\ last.wrote = FALSE
        /\ load_posted_entries(last.after) = load_posted_entries(prev.after)

\* C3: a load of the dedup file never raises, and on a file that is absent or
\* is not a list of strings it returns the empty set (both load functions).
C3_LoadNeverFails ==
    last.op \in {"load", "rss_load"} =>
        /\ last.st = "ok"
        /\ (last.before.kind # "list" => last.val = {})

(***************************************************************************)
(* agents/health_news_agent.py and main.py                                 *)
(***************************************************************************)
\* 'facebook.com', 'twitter.com', 'instagram.com', 'youtube.com'
blocked_domains ==
    {<<102, 97, 99, 101, 98, 111, 111, 107, 46, 99, 111, 109>>,
     <<116, 119, 105, 116, 116, 101, 114, 46, 99, 111, 109>>,
     <<105, 110, 115, 116, 97, 103, 114, 97, 109, 46, 99, 111, 109>>,
     <<121, 111, 117, 116, 117, 98, 101, 46, 99, 111, 109>>}

IsBlocked(url) == \E d \in blocked_domains : Find(LowerStr(url), d) # -1

\* validate_article_with_gemini of health_news_agent.py: the answer is "yes",
\* something else, or the call raises, which gives False.
GeminiAnswers == {"yes", "no", "error"}
health_validate_article(answer) == answer = "yes"

\* The candidates the news API can return: url "", two article urls or a
\* blocked one; title "" or "T"; description a string or null.
MainArticles ==
    [url : {<<>>, UrlA, UrlE, UrlBlocked}, title : {<<>>, <<84>>}, descNone : BOOLEAN]

\* One pass of the loop of get_latest_health_news on an article: "used",
\* "skip" (one of the validation checks), "unreachable" or "return".
ScanVerdict(article, usedSet, answer, reach) ==
    IF article.url \in usedSet THEN "used"
    ELSE IF article.url = <<>> THEN "skip"
    ELSE IF article.title = <<>> THEN "skip"
    ELSE IF IsBlocked(article.url) THEN "skip"
    ELSE IF ~health_validate_article(answer) THEN "skip"
    ELSE IF ~reach THEN "unreachable"
    ELSE "return"

\* The slip of recording whatever send_post did (the save placed after the
\* try instead of inside it).
RecordAfterSendAlways(result) == TRUE

\* main(): save_posted_entry follows send_post inside the try, so it runs only
\* when send_post did not raise.
RecordAfterSend(result) == result = "ok"

MainInit ==
    /\ file \in {AbsentFile, CorruptFile, ListFile({UrlA})}
    /\ appended = {}
    /\ last = NoCall
    /\ prev = NoCall
    /\ inp = NoInput
    /\ out = NoOutput
    /\ AppIdle

\* A process starts: setup, then get_latest_health_news up to its loop.
MainStart ==
    \E setup \in {"ok", "login_fails", "no_news_key"}, n \in 0..MaxFeed :
        /\ pc \in {"idle", "end"}
        /\ runs < MaxRuns
        /\ runs' = runs + 1
        /\ art' = NoArticle
        /\ unreachable' = {}
        /\ compose' = "none"
        /\ send' = "none"
        /\ saveCalls' = <<>>
        /\ idx' = 0
        /\ IF setup = "ok" /\ load_posted_entries(file).st = "ok"
           THEN /\ pc' = "scan"
                /\ used' = load_posted_entries(file).val
                /\ feedLen' = n
           ELSE /\ pc' = "end"
                /\ used' = {}
                /\ feedLen' = 0
        /\ UNCHANGED <<libVars, file, storeVars, compVars, posted, sendLog>>

\* One article of recent_articles goes through the checks of the loop.
MainScan ==
    \E article \in MainArticles, answer \in GeminiAnswers, reach \in BOOLEAN :
        LET v == ScanVerdict(article, used, answer, reach) IN
        /\ pc = "scan"
        /\ idx < feedLen
        /\ idx' = idx + 1
        /\ unreachable' = IF v = "unreachable" THEN unreachable \cup {idx + 1}
                          ELSE unreachable
        /\ art' = IF v = "return"
                  THEN [idx |-> idx + 1, url |-> article.url, title |-> article.title,
                        descNone |-> article.descNone]
                  ELSE art
        /\ pc' = IF v = "return" THEN "selected" ELSE "scan"
        /\ UNCHANGED <<libVars, file, storeVars, compVars, runs, used, posted, feedLen, compose,
                       send, saveCalls, sendLog>>

\* The loop ends with no article: get_latest_health_news returns None, main returns.
MainScanEnd ==
    /\ pc = "scan"
    /\ idx = feedLen
    /\ pc' = "end"
    /\ UNCHANGED <<libVars, file, storeVars, compVars, runs, used, posted, feedLen, idx, art,
                   unreachable, compose, send, saveCalls, sendLog>>

\* generate_hashtags and create_post_content on the selected article.
MainCompose ==
    \E tags \in {<<>>, <<<<35, 72, 101>>>>}, net \in NetOutcomes :
        LET entry == [title |-> Some(art.title),
                      description |-> IF art.descNone THEN None ELSE Some(<<>>),
                      link |-> art.url]
            res == create_post_content(entry, tags, net)
        IN /\ pc = "selected"
           /\ compose' = res.st
           /\ pc' = IF res.st = "skip" THEN "end" ELSE "composed"
           /\ UNCHANGED <<libVars, file, storeVars, compVars, runs, used, posted, feedLen, idx,
                          art, unreachable, send, saveCalls, sendLog>>

\* client.send_post
MainSend ==
    \E result \in {"ok", "raised"} :
        /\ pc = "composed"
        /\ send' = result
        /\ sendLog' = Append(sendLog, [run |-> runs, key |-> art.url, ok |-> result = "ok"])
        /\ pc' = IF RecordAfterSend(result) THEN "sent" ELSE "end"
        /\ UNCHANGED <<libVars, file, storeVars, compVars, runs, used, posted, feedLen, idx, art,
                       unreachable, compose, saveCalls>>

\* save_posted_entry(article['url'])
MainSave ==
    \E io \in WriteOutcomes :
        /\ pc = "sent"
        /\ file' = save_posted_entry(art.url, file, io).file
        /\ saveCalls' = Append(saveCalls, [idx |-> art.idx, url |-> art.url])
        /\ pc' = "end"
        /\ UNCHANGED <<libVars, storeVars, compVars, runs, used, posted, feedLen, idx, art,
                       unreachable, compose, send, sendLog>>

\* signal_handler: SIGINT or SIGTERM ends the process where it stands.
MainSignal ==
    /\ pc \in {"scan", "selected", "composed", "sent"}
    /\ pc' = "end"
    /\ UNCHANGED <<libVars, file, storeVars, compVars, runs, used, posted, feedLen, idx, art,
                   unreachable, compose, send, saveCalls, sendLog>>

MainNext ==
    MainStart \/ MainScan \/ MainScanEnd \/ MainCompose \/ MainSend \/ MainSave
        \/ MainSignal

SpecMain == MainInit /\ [][MainNext]_vars

\* C4: in a run of main(), save_posted_entry is called at most once, for the
\* selected article, and only when the composer returned a post, send_post for
\* that article did not raise, and the article's accessibility check was true.
C4_RecordOnlyAfterPublish ==
    /\ Len(saveCalls) <= 1
    /\ \A i \in 1..Len(saveCalls) :
        /\ saveCalls[i].idx = art.idx
        /\ saveCalls[i].url = art.url
        /\ saveCalls[i].idx \notin unreachable
        /\ compose = "post"
        /\ send = "ok"
        /\ sendLog # <<>>
        /\ sendLog[Len(sendLog)] = [run |-> runs, key |-> art.url, ok |-> TRUE]

\* A run that passed over an unreachable article, published a later one and
\* called save_posted_entry for it.
C4_Witness == Len(saveCalls) = 1 /\ unreachable # {} /\ send = "ok"

(***************************************************************************)
(* post_to_bluesky.py: main                                                *)
(***************************************************************************)
\* hashlib.md5(link.encode()).hexdigest(): a digest that tells links apart.
Md5(link) == <<"md5", Encode(link)>>

RssLinks == {UrlA, UrlE}

RssInit ==
    /\ file \in {AbsentFile, DictFile({Md5(UrlE)})}
    /\ appended = {}
    /\ last = NoCall
    /\ prev = NoCall
    /\ inp = NoInput
    /\ out = NoOutput
    /\ AppIdle

\* A process starts: setup, the load, the feed; an empty feed returns at once.
RssStart ==
    \E setup \in {"ok", "login_fails"}, n \in 0..MaxFeed :
        LET r == rss_load_posted_entries(file)
            loaded == setup = "ok" /\ r.st = "ok" /\ r.val.kind # "scalar"
        IN /\ pc \in {"idle", "end"}
           /\ runs < MaxRuns
           /\ runs' = runs + 1
           /\ idx' = 0
           /\ posted' = IF loaded THEN r.val ELSE DictFile({})
           /\ feedLen' = IF loaded THEN n ELSE 0
           /\ pc' = IF loaded /\ n > 0 THEN "loop" ELSE "end"
           /\ UNCHANGED <<libVars, file, storeVars, compVars, used, art, unreachable, compose,
                          send, saveCalls, sendLog>>

\* One entry of the feed: the membership test, the hashtags, the composer
\* (whose card fetch may raise and end the run), send_post, the record kept
\* in memory.
RssEntry ==
    \E link \in RssLinks, tags \in {<<>>, <<<<35, 72, 101>>>>}, net \in NetOutcomes,
       result \in {"ok", "raised"} :
        LET entry_id == Md5(link)
            entry == [title |-> Some(<<84>>), description |-> Some(<<>>), link |-> link]
            res == create_bluesky_post(entry, tags, net)
        IN /\ pc = "loop"
           /\ idx < feedLen
           /\ idx' = idx + 1
           /\ IF entry_id \in posted.keys
              THEN UNCHANGED <<pc, posted, sendLog>>
              ELSE IF res.st = "raise"
              THEN pc' = "end" /\ UNCHANGED <<posted, sendLog>>
              ELSE /\ sendLog' = Append(sendLog,
                                    [run |-> runs, key |-> entry_id, ok |-> result = "ok"])
                   /\ posted' = IF result = "ok" /\ posted.kind = "dict"
                                THEN DictFile(posted.keys \cup {entry_id})
                                ELSE posted
                   /\ pc' = pc
           /\ UNCHANGED <<libVars, file, storeVars, compVars, runs, used, feedLen, art, unreachable,
                          compose, send, saveCalls>>

\* After the loop: save_posted_entries(posted_entries).  The write is taken to
\* succeed here: what a run of this entry point loses, it loses on a working
\* disk.
RssFinish ==
    /\ pc = "loop"
    /\ idx = feedLen
    /\ file' = save_posted_entries(posted, file, "ok").file
    /\ pc' = "end"
    /\ UNCHANGED <<libVars, storeVars, compVars, runs, used, posted, feedLen, idx, art,
                   unreachable, compose, send, saveCalls, sendLog>>

RssNext == RssStart \/ RssEntry \/ RssFinish

SpecRss == RssInit /\ [][RssNext]_vars

\* C5: a key that a send_post call published successfully is not passed to
\* send_post again, in that run or a later one.
C5_NoDuplicatePublication ==
    \A i, j \in 1..Len(sendLog) :
        (i < j /\ sendLog[i].ok) => sendLog[j].key # sendLog[i].key

\* C6: between two items and at the end of a run, the keys of the items this
\* run has published are in the persisted file.
C6_PersistedAfterEachPublish ==
    pc \in {"scan", "loop", "end"} =>
        \A i \in 1..Len(sendLog) :
            (sendLog[i].run = runs /\ sendLog[i].ok) => sendLog[i].key \in PersistedKeys(file)

\* C15: a run of post_to_bluesky.main that got past its setup ends only when
\* every candidate of the feed has been taken: no error on one item (the
\* preview-card fetch included) ends the run before the later items.
C15_NoBatchAbort == pc = "end" => idx = feedLen

(***************************************************************************)
(* agents/gemini_agent.py: retry_with_backoff and the validator that       *)
(* calls it; the validator of agents/health_news_agent.py beside it.       *)
(***************************************************************************)
MaxRetries == 3
MaxDelay == 2

\* What model.generate_content(prompt) followed by response.text does in one
\* call: a text ("yes", " Yes\n", "no"), or an exception with a message
\* ("HTTP 429", "500").
LlmOutcomes ==
    {[ok |-> TRUE, text |-> <<121, 101, 115>>],
     [ok |-> TRUE, text |-> <<32, 89, 101, 115, 10>>],
     [ok |-> TRUE, text |-> <<110, 111>>],
     [ok |-> FALSE, text |-> <<72, 84, 84, 80, 32, 52, 50, 57>>],
     [ok |-> FALSE, text |-> <<53, 48, 48>>]}

\* Python's True and False, as the validators return them.
PyBool(b) == IF b THEN "True" ELSE "False"

\* generate(), the function validate_article_with_gemini hands to
\* retry_with_backoff: answer == "yes" of the stripped, lower-cased text.
generate(o) ==
    IF o.ok THEN [st |-> "ok", val |-> PyBool(LowerStr(Strip(o.text)) = <<121, 101, 115>>)]
    ELSE [st |-> "raise", val |-> o.text]

\* The slip of retrying after every error.
IsAnyError(msg) == TRUE

\* "429" in str(e)
IsRateLimit(msg) == Find(msg, <<52, 50, 57>>) # -1

\* delay = initial_delay * (2 ** attempt)
backoff_delay(initial_delay, attempt) == initial_delay * (2 ^ attempt)

\* validate_article_with_gemini of gemini_agent.py, given how its
\* retry_with_backoff(generate) call ended: the value returned, or, in the
\* except branch, the bare return (None).
gemini_validate_article_with_gemini(r) ==
    IF r.pc = "returned" THEN r.result ELSE "None"

\* validate_article_with_gemini of health_news_agent.py on one call of the
\* model: answer == "yes", or False in the except branch.
health_validate_article_with_gemini(o) ==
    IF o.ok THEN PyBool(LowerStr(Strip(o.text)) = <<121, 101, 115>>) ELSE "False"

RetryInit ==
    /\ file = AbsentFile
    /\ appended = {}
    /\ last = NoCall
    /\ prev = NoCall
    /\ inp = NoInput
    /\ out = NoOutput
    /\ pc = "idle"
    /\ runs = 0
    /\ used = {}
    /\ posted = DictFile({})
    /\ feedLen = 0
    /\ idx = 0
    /\ art = NoArticle
    /\ unreachable = {}
    /\ compose = "none"
    /\ send = "none"
    /\ saveCalls = <<>>
    /\ sendLog = <<>>
    /\ trunc = NoTrunc
    /\ enr = NoEnr
    /\ \E m \in 0..MaxRetries, d \in 0..MaxDelay :
        rt = [NoRetry EXCEPT !.pc = "loop", !.max_retries = m, !.initial_delay = d]
    /\ sv = NoSave

\* One pass of the for loop up to the sleep: func() is called; its value is
\* returned, or its exception is looked at.
RetryCall ==
    \E o \in LlmOutcomes :
        LET r == generate(o) IN
        /\ rt.pc = "loop"
        /\ rt.attempt < rt.max_retries
        /\ rt' = [rt EXCEPT !.calls = Append(rt.calls, o),
                            !.pc = IF r.st = "ok" THEN "returned"
                                   ELSE IF IsRateLimit(r.val) THEN "sleep"
                                   ELSE "raised",
                            !.result = IF r.st = "ok" THEN r.val
                                       ELSE IF IsRateLimit(r.val) THEN "none"
                                       ELSE "reraised"]
        /\ UNCHANGED <<file, storeVars, compVars, appVars, trunc, enr, sv>>

\* time.sleep(delay); continue
RetrySleep ==
    /\ rt.pc = "sleep"
    /\ rt' = [rt EXCEPT !.waits = Append(rt.waits,
                                         backoff_delay(rt.initial_delay, rt.attempt)),
                        !.attempt = rt.attempt + 1,
                        !.pc = "loop"]
    /\ UNCHANGED <<file, storeVars, compVars, appVars, trunc, enr, sv>>

\* range(max_retries) is used up: raise Exception("Failed after ... retries")
RetryExhausted ==
    /\ rt.pc = "loop"
    /\ rt.attempt >= rt.max_retries
    /\ rt' = [rt EXCEPT !.pc = "raised", !.result = "failed"]
    /\ UNCHANGED <<file, storeVars, compVars, appVars, trunc, enr, sv>>

\* validate_article_with_gemini of gemini_agent.py returns; it calls
\* retry_with_backoff with the defaults max_retries=3, initial_delay=1.
GeminiValidateReturn ==
    /\ rt.pc \in {"returned", "raised"}
    /\ rt.max_retries = 3
    /\ rt.initial_delay = 1
    /\ rt.gemini = "none"
    /\ rt' = [rt EXCEPT !.gemini = gemini_validate_article_with_gemini(rt)]
    /\ UNCHANGED <<file, storeVars, compVars, appVars, trunc, enr, sv>>

\* validate_article_with_gemini of health_news_agent.py, called on a model
\* that behaves as it did for the first call above.
HealthValidate ==
    /\ rt.pc \in {"returned", "raised"}
    /\ rt.calls # <<>>
    /\ rt.health = "none"
    /\ rt' = [rt EXCEPT !.health = health_validate_article_with_gemini(rt.calls[1])]
    /\ UNCHANGED <<file, storeVars, compVars, appVars, trunc, enr, sv>>

RetrySteps == RetryCall \/ RetrySleep \/ RetryExhausted

RetryNext == RetryCall \/ RetrySleep \/ RetryExhausted \/ GeminiValidateReturn \/ HealthValidate

SpecRetry == RetryInit /\ [][RetryNext]_vars

\* func and time.sleep return, and the interpreter goes on to the next
\* statement.
SpecRetryFair == RetryInit /\ [][RetryNext]_vars /\ WF_vars(RetrySteps)

\* The calls of func so far that raised an error whose message holds "429".
RateLimited(k) == ~rt.calls[k].ok /\ Find(rt.calls[k].text, <<52, 50, 57>>) # -1

RetryDone == rt.pc \in {"returned", "raised"}

RetrySafety ==
    LET n == Len(rt.calls) IN
    \* at most max_retries calls
    /\ n <= rt.max_retries
    \* a call is followed by another one only after a rate-limit error and a
    \* wait of initial_delay * 2^attempt
    /\ \A k \in 1..(n - 1) : RateLimited(k)
    /\ Len(rt.waits) \in {n - 1, n} \/ n = 0
    /\ \A k \in 1..Len(rt.waits) :
        /\ k <= n
        /\ RateLimited(k)
        /\ rt.waits[k] = rt.initial_delay * (2 ^ (k - 1))
    \* the value of the first call that succeeds is returned
    /\ rt.pc = "returned" <=> (n > 0 /\ rt.calls[n].ok)
    /\ rt.pc = "returned" => rt.result = generate(rt.calls[n]).val
    \* any other error is re-raised at once
    /\ (n > 0 /\ ~rt.calls[n].ok /\ ~RateLimited(n)) =>
            (rt.pc = "raised" /\ rt.result = "reraised" /\ Len(rt.waits) = n - 1)
    \* the failure is raised after max_retries rate-limit errors, and only then
    /\ (rt.pc = "raised" /\ rt.result = "failed") =>
            (n = rt.max_retries /\ \A k \in 1..n : RateLimited(k))
    /\ (rt.pc = "raised") =>
            \/ rt.result = "failed"
            \/ (rt.result = "reraised" /\ n > 0 /\ ~rt.calls[n].ok /\ ~RateLimited(n))

\* C16: retry_with_backoff terminates, with at most max_retries calls of func,
\* the result of the first call that succeeds, a retry only after a rate-limit
\* error and a wait of initial_delay * 2^attempt, any other error re-raised at
\* once, and a failure raised after max_retries rate-limit errors.
C16_RetryTerminates == []RetrySafety /\ <>RetryDone

\* Three rate-limit errors in a row, waits of 1, 2 and 4, and the failure.
C16_Witness ==
    /\ rt.pc = "raised"
    /\ rt.result = "failed"
    /\ Len(rt.calls) = 3
    /\ rt.waits = <<1, 2, 4>>

\* C17: when the LLM call fails, validate_article_with_gemini of
\* gemini_agent.py returns True (the accept its comment documents), and the
\* same value as validate_article_with_gemini of health_news_agent.py returns
\* for that failure.
C17_DefaultOnFailure ==
    (rt.pc = "raised" /\ rt.gemini # "none") =>
        /\ rt.gemini = "True"
        /\ rt.health # "none" => rt.gemini = rt.health

(***************************************************************************)
(* The enricher: generate_hashtags of agents/gemini_agent.py and           *)
(* generate_hashtags_with_gemini of post_to_bluesky.py.                    *)
(***************************************************************************)
\* str.split(sep) for a one-character sep: the pieces between the separators,
\* empty ones kept.
RECURSIVE SplitOn(_, _)
SplitOn(s, sep) ==
    LET hits == {i \in 1..Len(s) : s[i] = sep} IN
    IF hits = {} THEN <<s>>
    ELSE LET i == CHOOSE h \in hits : \A j \in hits : h <= j
         IN <<SubSeq(s, 1, i - 1)>> \o SplitOn(Suffix(s, i), sep)

\* str.replace(' ', '')
RemoveSpaces(s) == SelectSeq(s, LAMBDA c : c # 32)

\* [a-zA-Z0-9]
IsAsciiAlnum(c) ==
    \/ (c >= 48 /\ c <= 57)
    \/ (c >= 65 /\ c <= 90)
    \/ (c >= 97 /\ c <= 122)

\* re.match(r'^#[a-zA-Z0-9]+$', tag), for a tag without a line break
MatchesTagPattern(tag) ==
    /\ Len(tag) >= 2
    /\ tag[1] = 35
    /\ \A i \in 2..Len(tag) : IsAsciiAlnum(tag[i])

\* str.isalnum() on one code point up to U+00FF: the ASCII letters and
\* digits, the Latin-1 letters, and the Latin-1 superscript digits and
\* fractions.
IsAlnum(c) ==
    \/ IsAsciiAlnum(c)
    \/ c \in {170, 178, 179, 181, 185, 186, 188, 189, 190}
    \/ (c >= 192 /\ c <= 255 /\ c # 215 /\ c # 247)

\* word.isalnum()
IsAlnumStr(w) == w # <<>> /\ \A i \in 1..Len(w) : IsAlnum(w[i])

\* words = title.split()[:3]; [f"#{word.lower()}" for word in words if word.isalnum()]
fallback_hashtags(title) ==
    LET words == SelectSeq(Prefix(Split(title), 3), IsAlnumStr)
    IN [i \in 1..Len(words) |-> <<35>> \o LowerStr(words[i])]

\* The loop over the lines of the response: strip, drop the spaces, put '#'
\* in front when it is missing, keep what matches the pattern.
cleaned_lines(text) ==
    LET lines == SplitOn(Strip(text), 10)
        tags == [i \in 1..Len(lines) |->
                    LET t == RemoveSpaces(Strip(lines[i]))
                    IN IF t # <<>> /\ t[1] = 35 THEN t ELSE <<35>> \o t]
    IN SelectSeq(tags, MatchesTagPattern)

\* generate_hashtags (gemini_agent.py)
generate_hashtags(title, response) ==
    IF response.ok
    THEN LET cleaned == cleaned_lines(response.text)
         IN IF cleaned = <<>> THEN Prefix(fallback_hashtags(title), 5)
            ELSE Prefix(cleaned, 5)
    ELSE fallback_hashtags(title)

\* generate_hashtags_with_gemini (post_to_bluesky.py): the same statements.
generate_hashtags_with_gemini(title, response) ==
    IF response.ok
    THEN LET cleaned == cleaned_lines(response.text)
         IN IF cleaned = <<>> THEN Prefix(fallback_hashtags(title), 5)
            ELSE Prefix(cleaned, 5)
    ELSE fallback_hashtags(title)

\* "", "Health News", "Cafe(acute) 5 a-b now", "one two three four",
\* "E(acute)", "a2 B".
EnrichTitles ==
    {<<>>,
     <<72, 101, 97, 108, 116, 104, 32, 78, 101, 119, 115>>,
     <<67, 97, 102, 233, 32, 53, 32, 97, 45, 98, 32, 110, 111, 119>>,
     <<111, 110, 101, 32, 116, 119, 111, 32, 116, 104, 114, 101, 101, 32, 102, 111, 117, 114>>,
     <<201>>,
     <<97, 50, 32, 66>>}

\* The model's response: "#Health\n#News"; "health news\n#a-b\n\n#e(acute)";
\* "#a\n#b\n#c\n#d\n#e\n#f"; "-" (no valid line); "" ; " #x1 \n"; or the call
\* raises.
EnrichResponses ==
    {[ok |-> TRUE, text |-> <<35, 72, 101, 97, 108, 116, 104, 10, 35, 78, 101, 119, 115>>],
     [ok |-> TRUE, text |-> <<104, 101, 97, 108, 116, 104, 32, 110, 101, 119, 115, 10,
                              35, 97, 45, 98, 10, 10, 35, 233>>],
     [ok |-> TRUE, text |-> <<35, 97, 10, 35, 98, 10, 35, 99, 10, 35, 100, 10, 35, 101, 10,
                              35, 102>>],
     [ok |-> TRUE, text |-> <<45>>],
     [ok |-> TRUE, text |-> <<>>],
     [ok |-> TRUE, text |-> <<32, 35, 120, 49, 32, 10>>],
     [ok |-> FALSE, text |-> <<53, 48, 48>>]}

EnrichInit ==
    /\ file = AbsentFile
    /\ appended = {}
    /\ last = NoCall
    /\ prev = NoCall
    /\ inp = NoInput
    /\ out = NoOutput
    /\ pc = "idle"
    /\ runs = 0
    /\ used = {}
    /\ posted = DictFile({})
    /\ feedLen = 0
    /\ idx = 0
    /\ art = NoArticle
    /\ unreachable = {}
    /\ compose = "none"
    /\ send = "none"
    /\ saveCalls = <<>>
    /\ sendLog = <<>>
    /\ trunc = NoTrunc
    /\ enr \in [by : {"none"}, title : EnrichTitles, response : EnrichResponses,
                res : {<<>>}]
    /\ rt = NoRetry
    /\ sv = NoSave

EnrichAgent ==
    /\ enr.by = "none"
    /\ enr' = [enr EXCEPT !.by = "agent",
                          !.res = generate_hashtags(enr.title, enr.response)]
    /\ UNCHANGED <<file, storeVars, compVars, appVars, trunc, rt, sv>>

EnrichRss ==
    /\ enr.by = "none"
    /\ enr' = [enr EXCEPT !.by = "rss",
                          !.res = generate_hashtags_with_gemini(enr.title, enr.response)]
    /\ UNCHANGED <<file, storeVars, compVars, appVars, trunc, rt, sv>>

EnrichNext == EnrichAgent \/ EnrichRss

SpecEnrich == EnrichInit /\ [][EnrichNext]_vars

\* The call took the fallback path: the model call raised, or no line of the
\* response gave a valid tag.
OnFallbackPath ==
    \/ ~enr.response.ok
    \/ \A line \in {SplitOn(enr.response.text, 10)[i] :
                        i \in 1..Len(SplitOn(enr.response.text, 10))} :
            LET t == SelectSeq(line, LAMBDA c : c \notin Whitespace)
            IN ~(MatchesTagPattern(t) \/ MatchesTagPattern(<<35>> \o t))

\* C18: generate_hashtags returns at most 5 tags, every one of them matching
\* ^#[A-Za-z0-9]+$; on the fallback path every tag is '#' and the lower-cased
\* form of an alphanumeric word among the first 3 words of the title, in the
\* title's order.
C18_TagInvariant ==
    enr.by # "none" =>
        /\ Len(enr.res) <= 5
        /\ \A k \in 1..Len(enr.res) : MatchesTagPattern(enr.res[k])
        /\ OnFallbackPath =>
            enr.res = fallback_hashtags(enr.title)

(***************************************************************************)
(* storage.py in two processes at once: each is inside one call of         *)
(* save_posted_entry, and their reads and writes of the file interleave.   *)
(***************************************************************************)
RaceInit ==
    /\ file \in {AbsentFile, CorruptFile} \cup {ListFile(S) : S \in SUBSET Keys}
    /\ appended = {}
    /\ last = NoCall
    /\ prev = NoCall
    /\ inp = NoInput
    /\ out = NoOutput
    /\ pc = "idle"
    /\ runs = 0
    /\ used = {}
    /\ posted = DictFile({})
    /\ feedLen = 0
    /\ idx = 0
    /\ art = NoArticle
    /\ unreachable = {}
    /\ compose = "none"
    /\ send = "none"
    /\ saveCalls = <<>>
    /\ sendLog = <<>>
    /\ trunc = NoTrunc
    /\ enr = NoEnr
    /\ rt = NoRetry
    /\ \E k1, k2 \in Keys :
        /\ k1 # k2
        /\ sv = [p \in {1, 2} |->
                    [pc |-> "start", key |-> IF p = 1 THEN k1 ELSE k2, entries |-> {},
                     before |-> PersistedKeys(file)]]

\* entries = load_posted_entries(); the return on a key already there;
\* entries.add(new_url)
SaveRead(p) ==
    LET r == load_posted_entries(file) IN
    /\ sv[p].pc = "start"
    /\ r.st = "ok"
    /\ IF sv[p].key \in r.val
       THEN /\ sv' = [sv EXCEPT ![p].pc = "done"]
            /\ appended' = appended \cup {sv[p].key}
       ELSE /\ sv' = [sv EXCEPT ![p].pc = "write",
                                ![p].entries = r.val \cup {sv[p].key}]
            /\ UNCHANGED appended
    /\ UNCHANGED <<file, last, prev, compVars, appVars, trunc, enr, rt>>

\* open(filepath, 'w'); json.dump(list(entries), f): the write, which is taken
\* to succeed here, and the return.
SaveWrite(p) ==
    /\ sv[p].pc = "write"
    /\ file' = ListFile(sv[p].entries)
    /\ sv' = [sv EXCEPT ![p].pc = "done"]
    /\ appended' = appended \cup {sv[p].key}
    /\ UNCHANGED <<last, prev, compVars, appVars, trunc, enr, rt>>

RaceRead == \E p \in {1, 2} : SaveRead(p)

RaceWrite == \E p \in {1, 2} : SaveWrite(p)

RaceNext == RaceRead \/ RaceWrite

SpecRace == RaceInit /\ [][RaceNext]_vars

\* C19: once both calls of save_posted_entry have returned, the persisted set
\* holds both keys and every key it held before.
C19_NoLostKey ==
    (\A p \in {1, 2} : sv[p].pc = "done") =>
        \A p \in {1, 2} : {sv[p].key} \cup sv[p].before \subseteq PersistedKeys(file)

====
